---- MODULE Spec2Model ----
(***************************************************************************)
(* Model of the item-fulfillment tracker's store (src/app.js, class        *)
(* FulfillmentStore): the record collection, its persistence in            *)
(* localStorage, the subscriber notification, and the two checkpoint       *)
(* operations.  Records are objects: the collection holds references into  *)
(* a heap, and an asynchronous call that is waiting for its digest keeps   *)
(* the reference it found before the wait.                                 *)
(*                                                                         *)
(* Strings that the code takes apart or builds (passwords, digests, ids)   *)
(* are sequences: a password is the sequence of its character codes, a     *)
(* digest the sequence of its 64 hexadecimal characters, an id the         *)
(* sequence of its characters.  Other strings are TLA+ strings.            *)
(***************************************************************************)
EXTENDS Integers, Sequences, FiniteSets, Bags, TLC

VARIABLES
    heap,          \* the fulfillment objects ever built, by address (1..Len(heap))
    fulfillments,  \* this.fulfillments: addresses, most recent first
    storage,       \* localStorage item 'fulfillments': NoItem or the JSON text
    listeners,     \* this.listeners: the subscribed listeners, in order
    delivered,     \* per listener, what its last invocation was given and what the
                   \* localStorage item held at that moment
    creating,      \* bag of createFulfillment calls waiting for their digest
    collecting,    \* bag of validateAndCollect calls waiting for their digest
    now,           \* the clock, in milliseconds
    last,          \* the last value an operation returned to its caller
    hist,          \* history, per address: the secret handed out and the writes made
    written,       \* localStorage.setItem calls made by the latest step of an operation
    invoked,       \* listener invocations made by the latest step of an operation
    scope          \* the part of the bounds this behaviour explores (fixed at the start)

vars == <<heap, fulfillments, storage, listeners, delivered, creating, collecting, now, last,
          hist, written, invoked, scope>>

(***************************************************************************)
(* Bounds of the model.                                                    *)
(***************************************************************************)
MaxCreates == 2     \* createFulfillment calls over a behaviour
MaxTime == 1        \* the clock shows the instants 0..MaxTime
MaxInFlight == 2    \* asynchronous calls waiting at any one time
PinDraws == 2       \* values of Math.random() tried by generatePassword
SuffixDraws == 2    \* values of Math.random() tried by generateId
MaxSubscribers == 2 \* subscribe calls over a behaviour
MaxOrdered == 3     \* createFulfillment calls over a behaviour of creations and deletions

\* A behaviour explores one of five scopes: one record while the clock changes;
\* one record with every password drawn and overlapping calls; MaxCreates records
\* at one instant of the clock; one record with up to MaxSubscribers listeners
\* that subscribe at any moment; or MaxOrdered records created, by overlapping
\* calls while the clock changes, and deleted (`updates` tells whether the
\* behaviour calls updateStatusViaQR, validateAndCollect and updateStatus).
OrderScope == [creates |-> MaxOrdered, ticks |-> MaxTime, pins |-> 1, suffixes |-> SuffixDraws,
               calls |-> MaxInFlight, subscribers |-> 0, updates |-> FALSE]
Scopes == { [creates |-> 1, ticks |-> MaxTime, pins |-> 1, suffixes |-> 1, calls |-> 1,
             subscribers |-> 0, updates |-> TRUE],
            [creates |-> 1, ticks |-> 0, pins |-> PinDraws, suffixes |-> 1, calls |-> MaxInFlight,
             subscribers |-> 0, updates |-> TRUE],
            [creates |-> MaxCreates, ticks |-> 0, pins |-> 1, suffixes |-> SuffixDraws, calls |-> 1,
             subscribers |-> 0, updates |-> TRUE],
            [creates |-> 1, ticks |-> 0, pins |-> 1, suffixes |-> 1, calls |-> 1,
             subscribers |-> MaxSubscribers, updates |-> TRUE],
            OrderScope }

(***************************************************************************)
(* 32-bit words as two 16-bit halves <<hi, lo>>, and SHA-256 over them     *)
(* (crypto.subtle.digest('SHA-256', data)).                                *)
(***************************************************************************)
W16 == 65536

RECURSIVE Xor16(_, _)
Xor16(a, b) == IF a = 0 THEN b ELSE IF b = 0 THEN a
               ELSE ((a + b) % 2) + 2 * Xor16(a \div 2, b \div 2)
RECURSIVE And16(_, _)
And16(a, b) == IF a = 0 \/ b = 0 THEN 0
               ELSE ((a % 2) * (b % 2)) + 2 * And16(a \div 2, b \div 2)
RECURSIVE Pow2(_)
Pow2(n) == IF n = 0 THEN 1 ELSE 2 * Pow2(n - 1)

XorW(a, b) == <<Xor16(a[1], b[1]), Xor16(a[2], b[2])>>
AndW(a, b) == <<And16(a[1], b[1]), And16(a[2], b[2])>>
NotW(a) == <<65535 - a[1], 65535 - a[2]>>
AddW(a, b) == LET lo == a[2] + b[2]
              IN <<(a[1] + b[1] + (lo \div W16)) % W16, lo % W16>>
RotrSmall(a, n) == LET p == Pow2(n)  q == Pow2(16 - n)
                   IN <<(a[1] \div p) + (a[2] % p) * q, (a[2] \div p) + (a[1] % p) * q>>
Rotr(a, n) == IF n = 0 THEN a
              ELSE IF n = 16 THEN <<a[2], a[1]>>
              ELSE IF n < 16 THEN RotrSmall(a, n)
              ELSE RotrSmall(<<a[2], a[1]>>, n - 16)
Shr(a, n) == IF n < 16 THEN LET p == Pow2(n)  q == Pow2(16 - n)
                            IN <<a[1] \div p, (a[2] \div p) + (a[1] % p) * q>>
             ELSE <<0, a[1] \div Pow2(n - 16)>>

SHA256_K ==
    <<
       <<17034, 12184>>, <<28983, 17553>>, <<46528, 64463>>, <<59829, 56229>>,
       <<14678, 49755>>, <<23025, 4593>>, <<37439, 33444>>, <<43804, 24277>>,
       <<55303, 43672>>, <<4739, 23297>>, <<9265, 34238>>, <<21772, 32195>>,
       <<29374, 23924>>, <<32990, 45566>>, <<39900, 1703>>, <<49563, 61812>>,
       <<58523, 27073>>, <<61374, 18310>>, <<4033, 40390>>, <<9228, 41420>>,
       <<11753, 11375>>, <<19060, 33962>>, <<23728, 43484>>, <<30457, 35034>>,
       <<38974, 20818>>, <<43057, 50797>>, <<45059, 10184>>, <<48985, 32711>>,
       <<50912, 3059>>, <<54695, 37191>>, <<1738, 25425>>, <<5161, 10599>>,
       <<10167, 2693>>, <<11803, 8504>>, <<19756, 28156>>, <<21304, 3347>>,
       <<25866, 29524>>, <<30314, 2747>>, <<33218, 51502>>, <<37490, 11397>>,
       <<41663, 59553>>, <<43034, 26187>>, <<49739, 35696>>, <<51052, 20899>>,
       <<53650, 59417>>, <<54937, 1572>>, <<62478, 13701>>, <<4202, 41072>>,
       <<6564, 49430>>, <<7735, 27656>>, <<10056, 30540>>, <<13488, 48309>>,
       <<14620, 3251>>, <<20184, 43594>>, <<23452, 51791>>, <<26670, 28659>>,
       <<29839, 33518>>, <<30885, 25455>>, <<33992, 30740>>, <<36039, 520>>,
       <<37054, 65530>>, <<42064, 27883>>, <<48889, 41975>>, <<50801, 30962>> >>

SHA256_H0 ==
    <<
       <<27145, 58983>>, <<47975, 44677>>, <<15470, 62322>>, <<42319, 62778>>,
       <<20750, 21119>>, <<39685, 26764>>, <<8067, 55723>>, <<23520, 52505>> >>

BigSigma0(a) == XorW(XorW(Rotr(a, 2), Rotr(a, 13)), Rotr(a, 22))
BigSigma1(e) == XorW(XorW(Rotr(e, 6), Rotr(e, 11)), Rotr(e, 25))
SmallSigma0(w) == XorW(XorW(Rotr(w, 7), Rotr(w, 18)), Shr(w, 3))
SmallSigma1(w) == XorW(XorW(Rotr(w, 17), Rotr(w, 19)), Shr(w, 10))
Ch(e, f, g) == XorW(AndW(e, f), AndW(NotW(e), g))
Maj(a, b, c) == XorW(XorW(AndW(a, b), AndW(a, c)), AndW(b, c))

Pad(m) == LET bits == 8 * Len(m)
              z == (119 - Len(m)) % 64
          IN m \o <<128>> \o [i \in 1..z |-> 0] \o <<0, 0, 0, 0>>
               \o << (bits \div 16777216) % 256, (bits \div 65536) % 256,
                     (bits \div 256) % 256, bits % 256 >>

BlockWords(m, o) == [i \in 1..16 |-> << m[o + 4*i - 3] * 256 + m[o + 4*i - 2],
                                        m[o + 4*i - 1] * 256 + m[o + 4*i] >>]

\* Force(S) is the element of the singleton S: its element is a computed value
Force(S) == CHOOSE v \in S : TRUE

NextWord(w) == LET t == Len(w) + 1
               IN AddW(AddW(w[t - 16], SmallSigma0(w[t - 15])),
                       AddW(w[t - 7], SmallSigma1(w[t - 2])))

RECURSIVE Schedule(_, _)
Schedule(w, n) == IF Len(w) >= n THEN w
                  ELSE IF n = Len(w) + 1 THEN Append(w, NextWord(w))
                  ELSE Force({ Schedule(h, n) : h \in { Schedule(w, (Len(w) + n) \div 2) } })

Round(s, wt, kt) ==
    LET t1 == AddW(AddW(AddW(s[8], BigSigma1(s[5])), AddW(Ch(s[5], s[6], s[7]), kt)), wt)
        t2 == AddW(BigSigma0(s[1]), Maj(s[1], s[2], s[3]))
    IN <<AddW(t1, t2), s[1], s[2], s[3], AddW(s[4], t1), s[5], s[6], s[7]>>

RECURSIVE Rounds(_, _, _, _)
Rounds(s, w, lo, hi) ==
    IF lo = hi THEN Round(s, w[lo], SHA256_K[lo])
    ELSE LET mid == (lo + hi) \div 2
         IN Force({ Rounds(h, w, mid + 1, hi) : h \in { Rounds(s, w, lo, mid) } })

Compress(h, m, o) ==
    Force({ <<AddW(h[1], s[1]), AddW(h[2], s[2]), AddW(h[3], s[3]), AddW(h[4], s[4]),
              AddW(h[5], s[5]), AddW(h[6], s[6]), AddW(h[7], s[7]), AddW(h[8], s[8])>> :
              s \in { Rounds(h, w, 1, 64) : w \in { Schedule(BlockWords(m, o) \o <<>>, 64) } } })

RECURSIVE Blocks(_, _, _)
Blocks(h, m, o) == IF o >= Len(m) THEN h
                   ELSE Force({ Blocks(nh, m, o + 64) : nh \in { Compress(h, m, o) } })

SHA256(m) == Force({ Blocks(SHA256_H0, pm, 0) : pm \in { Pad(m) } })

HexChars == <<"0","1","2","3","4","5","6","7","8","9","a","b","c","d","e","f">>
DigestBytes(h) == [i \in 1..32 |->
    LET half == h[((i - 1) \div 4) + 1][(((i - 1) % 4) \div 2) + 1]
    IN IF i % 2 = 1 THEN half \div 256 ELSE half % 256]
ToHex(bs) == [i \in 1..(2 * Len(bs)) |->
    LET b == bs[(i + 1) \div 2]
    IN HexChars[(IF i % 2 = 1 THEN b \div 16 ELSE b % 16) + 1]]


(***************************************************************************)
(* Strings and conversions.                                                *)
(***************************************************************************)
Null == <<>>

Min(a, b) == IF a < b THEN a ELSE b

\* TextEncoder.encode: the UTF-8 bytes of a string of character codes below 2048
RECURSIVE TextEncoderEncode(_)
TextEncoderEncode(s) ==
    IF s = <<>> THEN <<>>
    ELSE (IF Head(s) < 128 THEN <<Head(s)>>
          ELSE <<192 + (Head(s) \div 64), 128 + (Head(s) % 64)>>)
         \o TextEncoderEncode(Tail(s))

\* Number.prototype.toString() of a non-negative integer, as character codes
RECURSIVE NumberToString(_)
NumberToString(n) == IF n < 10 THEN <<48 + n>>
                     ELSE NumberToString(n \div 10) \o <<48 + (n % 10)>>

Lower36 == <<"0","1","2","3","4","5","6","7","8","9","a","b","c","d","e","f","g","h",
             "i","j","k","l","m","n","o","p","q","r","s","t","u","v","w","x","y","z">>
Upper36 == <<"0","1","2","3","4","5","6","7","8","9","A","B","C","D","E","F","G","H",
             "I","J","K","L","M","N","O","P","Q","R","S","T","U","V","W","X","Y","Z">>

\* toString(36) of a non-negative integer
RECURSIVE IntegerToString36(_)
IntegerToString36(n) == IF n < 36 THEN <<Lower36[n + 1]>>
                        ELSE IntegerToString36(n \div 36) \o <<Lower36[(n % 36) + 1]>>

\* the first d base-36 digits of the fraction num/den (0 <= num < den), without
\* trailing zeros
RECURSIVE FractionDigits36(_, _, _)
FractionDigits36(num, den, d) ==
    IF num = 0 \/ d = 0 THEN <<>>
    ELSE <<Lower36[((36 * num) \div den) + 1]>> \o FractionDigits36((36 * num) % den, den, d - 1)

\* toString(36) of a value r = <<num, den>> of Math.random(), cut after the digits
\* substr(2, 5) can reach
FractionToString36(r) == IF r[1] = 0 THEN <<"0">>
                         ELSE <<"0", ".">> \o FractionDigits36(r[1], r[2], 5)

Substr(s, start, length) == SubSeq(s, start + 1, Min(Len(s), start + length))

UpperChar(c) == IF \E i \in 1..36 : Lower36[i] = c
                THEN Upper36[CHOOSE i \in 1..36 : Lower36[i] = c]
                ELSE c
ToUpperCase(s) == [i \in 1..Len(s) |-> UpperChar(s[i])] \o <<>>

\* new Date(ms).toISOString(), as <<year, month, day, hours, minutes, seconds, ms>>
toISOString(ms) ==
    LET days == ms \div 86400000
        z    == days + 719468
        era  == z \div 146097
        doe  == z - era * 146097
        yoe  == (doe - (doe \div 1460) + (doe \div 36524) - (doe \div 146096)) \div 365
        doy  == doe - (365 * yoe + (yoe \div 4) - (yoe \div 100))
        mp   == (5 * doy + 2) \div 153
        d    == doy - ((153 * mp + 2) \div 5) + 1
        m    == IF mp < 10 THEN mp + 3 ELSE mp - 9
        y    == yoe + era * 400 + (IF m <= 2 THEN 1 ELSE 0)
    IN <<y, m, d, (ms \div 3600000) % 24, (ms \div 60000) % 60, (ms \div 1000) % 60, ms % 1000>>

(***************************************************************************)
(* Inputs.                                                                 *)
(***************************************************************************)
\* values of Math.random(), as fractions <<num, den>>
PinRandoms == { <<k, PinDraws>> : k \in 0..(PinDraws - 1) }
SuffixRandoms == { <<k, SuffixDraws>> : k \in 0..(SuffixDraws - 1) }

\* generatePassword() when Math.random() returns r
generatePassword(r) == NumberToString(100000 + ((r[1] * 900000) \div r[2]))

\* generateId() when Date.now() returns t and Math.random() returns r
generateId(t, r) ==
    <<"F", "U", "L", "-">> \o ToUpperCase(IntegerToString36(t)) \o <<"-">>
        \o ToUpperCase(Substr(FractionToString36(r), 2, 5))

\* passwords a caller may supply: the generated ones and the empty string
PasswordInputs == { generatePassword(r) : r \in PinRandoms } \cup { <<>> }

DataInputs == { [itemName |-> "Laptop", personA |-> "Alice", personB |-> "Bob", personC |-> "Carol"] }

Statuses == { "pending", "in-transit", "completed" }

\* an id no record has
UnknownId == <<"F", "U", "L", "-", "?">>

\* hashPassword: SHA-256 of the UTF-8 bytes, as lower-case hexadecimal
DigestTable == [p \in PasswordInputs |-> ToHex(DigestBytes(SHA256(TextEncoderEncode(p)))) \o <<>>]
\* the password itself, character by character, in place of its digest
hashPasswordPlain(password) == [i \in 1..Len(password) |-> Upper36[password[i] - 47]] \o <<>>

hashPassword(password) == DigestTable[password]

(***************************************************************************)
(* Records, the collection and its JSON text.                              *)
(***************************************************************************)
\* a timeline whose created stage carries no timestamp
NewTimelineUnstamped(data, ts) ==
    << [stage |-> "created", title |-> "Fulfillment Created",
        description |-> <<data.personA, " initiated the transfer">>,
        timestamp |-> Null, completed |-> TRUE],
       [stage |-> "dropped-off", title |-> "Item Dropped Off",
        description |-> <<data.personA, " drops off with ", data.personB>>,
        timestamp |-> Null, completed |-> FALSE],
       [stage |-> "collected", title |-> "Item Collected",
        description |-> <<data.personC, " collects from ", data.personB>>,
        timestamp |-> Null, completed |-> FALSE] >>

NewTimeline(data, ts) ==
    << [stage |-> "created", title |-> "Fulfillment Created",
        description |-> <<data.personA, " initiated the transfer">>,
        timestamp |-> ts, completed |-> TRUE],
       [stage |-> "dropped-off", title |-> "Item Dropped Off",
        description |-> <<data.personA, " drops off with ", data.personB>>,
        timestamp |-> Null, completed |-> FALSE],
       [stage |-> "collected", title |-> "Item Collected",
        description |-> <<data.personC, " collects from ", data.personB>>,
        timestamp |-> Null, completed |-> FALSE] >>

NewFulfillment(id, data, passwordHash, createdAt, ts) ==
    [id |-> id, itemName |-> data.itemName, personA |-> data.personA,
     personB |-> data.personB, personC |-> data.personC, status |-> "pending",
     qrCodeUsed |-> FALSE, passwordHash |-> passwordHash, passwordUsed |-> FALSE,
     createdAt |-> createdAt, timeline |-> NewTimeline(data, ts)]

\* fulfillment.timeline.find(t => t.stage === stage), then completed and timestamp set
MarkStage(timeline, stage, ts) ==
    LET hits == { i \in 1..Len(timeline) : timeline[i].stage = stage }
    IN IF hits = {} THEN timeline
       ELSE LET i == CHOOSE j \in hits : \A k \in hits : j <= k
            IN [timeline EXCEPT ![i] = [@ EXCEPT !.completed = TRUE, !.timestamp = ts]]

\* this.fulfillments.find(f => f.id === id): the address found, or 0
Find(list, hp, id) ==
    LET hits == { i \in 1..Len(list) : hp[list[i]].id = id }
    IN IF hits = {} THEN 0
       ELSE list[CHOOSE j \in hits : \A k \in hits : j <= k]

getFulfillment(id) == Find(fulfillments, heap, id)

\* a removal that fills the place of each record removed with the last record of
\* the array
RECURSIVE FilterSwapLast(_, _, _)
FilterSwapLast(list, hp, id) ==
    LET hits == { i \in 1..Len(list) : hp[list[i]].id = id }
    IN IF hits = {} THEN list
       ELSE LET i == CHOOSE j \in hits : \A k \in hits : j <= k
                n == Len(list)
                moved == IF i = n THEN list ELSE [list EXCEPT ![i] = list[n]]
            IN FilterSwapLast(SubSeq(moved, 1, n - 1), hp, id)

\* this.fulfillments.filter(f => f.id !== id)
RECURSIVE Filter(_, _, _)
Filter(list, hp, id) ==
    IF list = <<>> THEN <<>>
    ELSE (IF hp[Head(list)].id # id THEN <<Head(list)>> ELSE <<>>) \o Filter(Tail(list), hp, id)

\* the collection as values: the objects the array refers to, in order
Collection(list, hp) == [i \in 1..Len(list) |-> hp[list[i]]] \o <<>>

RecordKeys == <<"id", "itemName", "personA", "personB", "personC", "status", "qrCodeUsed",
                "passwordHash", "passwordUsed", "createdAt", "timeline">>
StageKeys == <<"stage", "title", "description", "timestamp", "completed">>

\* a JSON object is the sequence of its <<key, value>> members, a JSON array a sequence
StringifyObject(o, keys) == [i \in 1..Len(keys) |-> <<keys[i], o[keys[i]]>>] \o <<>>
StringifyStage(s) == StringifyObject(s, StageKeys)
StringifyRecord(f) ==
    StringifyObject([f EXCEPT !.timeline = [i \in 1..Len(f.timeline) |-> StringifyStage(f.timeline[i])] \o <<>>],
                    RecordKeys)
\* a text that holds the newest record only
JSONstringifyNewest(coll) ==
    [i \in 1..(IF Len(coll) > 1 THEN 1 ELSE Len(coll)) |-> StringifyRecord(coll[i])] \o <<>>

JSONstringify(coll) == [i \in 1..Len(coll) |-> StringifyRecord(coll[i])] \o <<>>

ParseObject(members) ==
    [k \in { members[i][1] : i \in 1..Len(members) } |->
        LET at == { i \in 1..Len(members) : members[i][1] = k }
        IN members[CHOOSE i \in at : \A j \in at : j <= i][2]]
ParseRecord(members) ==
    LET o == ParseObject(members)
    IN [o EXCEPT !.timeline = [i \in 1..Len(o.timeline) |-> ParseObject(o.timeline[i])] \o <<>>]
JSONparse(text) == [i \in 1..Len(text) |-> ParseRecord(text[i])] \o <<>>

NoItem == <<>>
\* a text JSON.parse accepts: every member of every object has its value
Parses(text) == \A i \in 1..Len(text) : \A m \in 1..Len(text[i]) : Len(text[i][m]) = 2
\* a text cut off after the first key of its first object
MalformedText == << << <<"id">> >> >>
\* whether loadFromStorage throws (the SyntaxError of JSON.parse)
Throws(stored) == stored # NoItem /\ ~Parses(stored[1])
\* loadFromStorage
loadFromStorage(stored) == IF stored # NoItem THEN JSONparse(stored[1]) ELSE <<>>

(***************************************************************************)
(* The store.                                                              *)
(***************************************************************************)
InFlight == BagCardinality(creating) + BagCardinality(collecting)

Addresses == 1..Len(heap)

\* the draws and the inputs of the scope
ScopePinRandoms == { r \in PinRandoms : r[1] < scope.pins }
ScopeSuffixRandoms == { r \in SuffixRandoms : r[1] < scope.suffixes }
ScopePasswordInputs == { generatePassword(r) : r \in ScopePinRandoms } \cup { <<>> }

\* ids a caller may pass: the id of any record ever built, or an unknown one
IdInputs == { heap[a].id : a \in Addresses } \cup { UnknownId }

\* the value an operation hands back to its caller
Return(op, success, message, ref, password) ==
    [op |-> op, success |-> success, message |-> message, ref |-> ref, password |-> password]

\* saveToStorage() then notify(), for the array `list` over the heap `hp`
saveToStorage(list, hp) ==
    /\ storage' = <<JSONstringify(Collection(list, hp))>>
    /\ written' = 1
\* a notification that reaches the first listener only
notifyFirst(list, hp, stored) ==
    /\ delivered' = [l \in 1..Len(listeners) |->
                       IF l = 1 THEN << [given |-> Collection(list, hp), stored |-> stored] >>
                       ELSE delivered[l]]
    /\ invoked' = IF Len(listeners) > 0 THEN 1 ELSE 0

\* `stored` is the localStorage item at the time the listeners run
notify(list, hp, stored) ==
    /\ delivered' = [l \in 1..Len(listeners) |->
                       << [given |-> Collection(list, hp), stored |-> stored] >>]
    /\ invoked' = Len(listeners)

\* a step that calls neither saveToStorage() nor notify()
Quiet == written' = 0 /\ invoked' = 0

\* notify() ahead of saveToStorage(): the listeners run on the old item
NotifyAndSave(list, hp) == notify(list, hp, storage) /\ saveToStorage(list, hp)

SaveAndNotify(list, hp) == saveToStorage(list, hp) /\ notify(list, hp, storage')

\* an object that nothing refers to any more: neither the array, nor a waiting
\* call, nor the value just returned to the caller (`held`: its address, or 0)
Garbage == [id |-> UnknownId, itemName |-> "", personA |-> "", personB |-> "", personC |-> "",
            status |-> "", qrCodeUsed |-> FALSE, passwordHash |-> <<>>, passwordUsed |-> FALSE,
            createdAt |-> Null, timeline |-> <<>>]
NoHistory == [secret |-> Null, dropOffs |-> 0, collections |-> 0]
Referenced(list, calls) == { list[i] : i \in 1..Len(list) } \cup { c.ref : c \in BagToSet(calls) }
Sweep(hp, list, calls, held) ==
    [a \in 1..Len(hp) |->
        IF a \in Referenced(list, calls) \cup {held} THEN hp[a] ELSE Garbage] \o <<>>
\* the password handed out for an object stays handed out when the object is gone
Forgotten(h) == [secret |-> h.secret, dropOffs |-> 0, collections |-> 0]
SweepHistory(h, list, calls, held) ==
    [a \in 1..Len(h) |->
        IF a \in Referenced(list, calls) \cup {held} THEN h[a] ELSE Forgotten(h[a])] \o <<>>

\* what localStorage may hold when the page is first loaded
StoredInputs == { NoItem, <<MalformedText>> }

\* the outcome of a constructor that threw: no store exists
ConstructorThrew == Return("constructor", FALSE, "SyntaxError", 0, Null)
Constructed == last # ConstructorThrew

\* the first page load, in the scope s
InitIn(s) ==
    /\ scope = s
    /\ storage \in StoredInputs
    /\ heap = <<>>
    /\ fulfillments = IF Throws(storage) THEN <<>> ELSE loadFromStorage(storage)
    /\ listeners = <<>>
    /\ delivered = <<>>
    /\ creating = EmptyBag
    /\ collecting = EmptyBag
    /\ now = 0
    /\ last = IF Throws(storage) THEN ConstructorThrew ELSE Return("constructor", TRUE, "", 0, Null)
    /\ hist = <<>>
    /\ written = 0
    /\ invoked = 0

Init == \E s \in Scopes : InitIn(s)

\* the page is loaded again: new FulfillmentStore() on what localStorage holds.
\* The calls and the listeners of the old page are gone with it.  The
\* objects parsed are new; the i-th takes the address of the object that was i-th
\* in the old array, or a fresh address when there was none.
Reload ==
    /\ IF Throws(storage)
       THEN /\ last' = ConstructorThrew
            /\ UNCHANGED <<heap, fulfillments, hist>>
       ELSE LET loaded == loadFromStorage(storage)
                n == Len(loaded)
                old == Len(fulfillments)
                addr(i) == IF i <= old THEN fulfillments[i] ELSE Len(heap) + (i - old)
                size == IF n > old THEN Len(heap) + (n - old) ELSE Len(heap)
                at(a) == { i \in 1..n : addr(i) = a }
            IN /\ fulfillments' = [i \in 1..n |-> addr(i)] \o <<>>
               /\ heap' = [a \in 1..size |->
                              IF at(a) # {} THEN loaded[CHOOSE i \in at(a) : TRUE] ELSE Garbage] \o <<>>
               /\ hist' = [a \in 1..size |->
                              IF a > Len(hist) THEN NoHistory
                              ELSE IF at(a) # {} THEN hist[a]
                              ELSE Forgotten(hist[a])] \o <<>>
               /\ last' = Return("constructor", TRUE, "", 0, Null)
    /\ creating' = EmptyBag
    /\ collecting' = EmptyBag
    /\ listeners' = <<>>
    /\ delivered' = <<>>
    /\ Quiet
    /\ UNCHANGED <<storage, now, scope>>

\* subscribe(listener); a listener is named by the order of its subscription
subscribe(listener) ==
    /\ Len(listeners) < scope.subscribers
    /\ listeners' = Append(listeners, listener)
    /\ delivered' = Append(delivered, <<>>)
    /\ last' = Return("subscribe", TRUE, "", 0, Null)
    /\ Quiet
    /\ UNCHANGED <<heap, fulfillments, storage, creating, collecting, now, hist, scope>>

\* the wall clock that Date.now() and new Date() read shows another instant: time
\* passes, or the clock of the machine is set, forward or back
Tick ==
    /\ \E t \in 0..scope.ticks : t # now /\ now' = t
    /\ UNCHANGED <<heap, fulfillments, storage, listeners, delivered, creating, collecting, last, hist,
                   written, invoked, scope>>

\* an insertion at the tail of the array
push(list, addr) == list \o <<addr>>

\* this.fulfillments.unshift(fulfillment)
unshift(list, addr) == <<addr>> \o list

\* createFulfillment(data), up to the await of hashPassword
createFulfillmentStart(data, r) ==
    /\ Len(heap) + BagCardinality(creating) < scope.creates
    /\ InFlight < scope.calls
    /\ creating' = creating (+) SetToBag({ [data |-> data, password |-> generatePassword(r)] })
    /\ Quiet
    /\ UNCHANGED <<heap, fulfillments, storage, listeners, delivered, collecting, now, last, hist, scope>>

\* createFulfillment, from the await on: c is the waiting call, r the value of
\* Math.random() in generateId.  The step reads the clock three times: Date.now()
\* in generateId, new Date() for createdAt (at t2) and new Date() for the
\* timestamp of the created stage (at t3); the clock may change between the reads.
createFulfillmentResume(c, r) ==
    /\ BagIn(c, creating)
    /\ \E t2 \in 0..scope.ticks : \E t3 \in 0..scope.ticks :
       LET passwordHash == hashPassword(c.password)
           fulfillment == NewFulfillment(generateId(now, r), c.data, passwordHash,
                                         toISOString(t2), toISOString(t3))
           addr == Len(heap) + 1
       IN /\ now' = t3
          /\ heap' = Append(heap, fulfillment)
          /\ fulfillments' = unshift(fulfillments, addr)
          /\ SaveAndNotify(fulfillments', heap')
          /\ last' = Return("createFulfillment", TRUE, "", addr, c.password)
          /\ hist' = Append(hist, [secret |-> c.password, dropOffs |-> 0, collections |-> 0])
    /\ creating' = creating (-) SetToBag({c})
    /\ UNCHANGED <<listeners, collecting, scope>>

\* the checks with the test of the status ahead of the test of qrCodeUsed
updateStatusViaQRChecksStatusFirst(f, hp) ==
    IF f = 0 THEN "Fulfillment not found"
    ELSE IF hp[f].status # "pending" THEN "Fulfillment is not in pending status"
    ELSE IF hp[f].qrCodeUsed THEN "QR code has already been used"
    ELSE ""

\* the checks without the test of qrCodeUsed
updateStatusViaQRChecksNoFlag(f, hp) ==
    IF f = 0 THEN "Fulfillment not found"
    ELSE IF hp[f].status # "pending" THEN "Fulfillment is not in pending status"
    ELSE ""

\* the checks of updateStatusViaQR on the address found (0: none): the message of
\* the first check that fails, or "" when all pass
updateStatusViaQRChecks(f, hp) ==
    IF f = 0 THEN "Fulfillment not found"
    ELSE IF hp[f].qrCodeUsed THEN "QR code has already been used"
    ELSE IF hp[f].status # "pending" THEN "Fulfillment is not in pending status"
    ELSE ""

\* writes that also stamp createdAt again
DropOffUpdateRestamping(f, ts) ==
    [f EXCEPT !.status = "in-transit", !.qrCodeUsed = TRUE, !.createdAt = ts,
              !.timeline = MarkStage(@, "dropped-off", ts)]

\* the writes of updateStatusViaQR
DropOffUpdate(f, ts) ==
    [f EXCEPT !.status = "in-transit", !.qrCodeUsed = TRUE,
              !.timeline = MarkStage(@, "dropped-off", ts)]

updateStatusViaQR(id) ==
    LET f == Find(fulfillments, heap, id)
        failure == updateStatusViaQRChecks(f, heap)
    IN IF failure # ""
       THEN /\ last' = Return("updateStatusViaQR", FALSE, failure, 0, Null)
            /\ Quiet
            /\ UNCHANGED <<heap, fulfillments, storage, listeners, delivered, creating, collecting, now, hist, scope>>
       ELSE /\ heap' = [heap EXCEPT ![f] = DropOffUpdate(@, toISOString(now))]
            /\ SaveAndNotify(fulfillments, heap')
            /\ last' = Return("updateStatusViaQR", TRUE, "Item receipt confirmed!", f, Null)
            /\ hist' = [hist EXCEPT ![f].dropOffs = @ + 1]
            /\ UNCHANGED <<fulfillments, listeners, creating, collecting, now, scope>>

\* the checks with the test of the status ahead of the test of passwordUsed
validateAndCollectChecksStatusFirst(f, hp) ==
    IF f = 0 THEN "Fulfillment not found"
    ELSE IF hp[f].status # "in-transit" THEN "Item has not been dropped off yet"
    ELSE IF hp[f].passwordUsed THEN "Password has already been used"
    ELSE ""

\* the checks without the test of the status
validateAndCollectChecksNoStatus(f, hp) ==
    IF f = 0 THEN "Fulfillment not found"
    ELSE IF hp[f].passwordUsed THEN "Password has already been used"
    ELSE ""

\* the checks of validateAndCollect before the await
validateAndCollectChecks(f, hp) ==
    IF f = 0 THEN "Fulfillment not found"
    ELSE IF hp[f].passwordUsed THEN "Password has already been used"
    ELSE IF hp[f].status # "in-transit" THEN "Item has not been dropped off yet"
    ELSE ""

\* validateAndCollect(id, password), up to the await of hashPassword
validateAndCollectStart(id, password) ==
    LET f == Find(fulfillments, heap, id)
        failure == validateAndCollectChecks(f, heap)
    IN IF failure # ""
       THEN /\ last' = Return("validateAndCollect", FALSE, failure, 0, Null)
            /\ Quiet
            /\ UNCHANGED <<heap, fulfillments, storage, listeners, delivered, creating, collecting, now, hist, scope>>
       ELSE /\ InFlight < scope.calls
            /\ collecting' = collecting (+) SetToBag({ [id |-> id, password |-> password, ref |-> f] })
            /\ Quiet
            /\ UNCHANGED <<heap, fulfillments, storage, listeners, delivered, creating, now, last, hist, scope>>

\* the comparison with its outcome inverted
PasswordMatchesInverted(password, f) == hashPassword(password) # f.passwordHash

\* a comparison that looks at the length of the digest only
PasswordMatchesLength(password, f) == Len(hashPassword(password)) = Len(f.passwordHash)

\* whether the digest of the supplied password is the stored one
PasswordMatches(password, f) == hashPassword(password) = f.passwordHash

\* the writes of validateAndCollect
CollectUpdate(f, ts) ==
    [f EXCEPT !.status = "completed", !.passwordUsed = TRUE,
              !.timeline = MarkStage(@, "collected", ts)]

\* validateAndCollect, from the await on: c is the waiting call, c.ref the object
\* it found before the await
validateAndCollectResume(c) ==
    /\ BagIn(c, collecting)
    /\ collecting' = collecting (-) SetToBag({c})
    /\ IF ~PasswordMatches(c.password, heap[c.ref])
       THEN /\ last' = Return("validateAndCollect", FALSE, "Incorrect password", 0, Null)
            /\ heap' = Sweep(heap, fulfillments, collecting', 0)
            /\ hist' = SweepHistory(hist, fulfillments, collecting', 0)
            /\ Quiet
            /\ UNCHANGED <<fulfillments, storage, listeners, delivered, creating, now, scope>>
       ELSE /\ heap' = Sweep([heap EXCEPT ![c.ref] = CollectUpdate(@, toISOString(now))],
                             fulfillments, collecting', c.ref)
            /\ SaveAndNotify(fulfillments, heap')
            /\ last' = Return("validateAndCollect", TRUE, "Item collected successfully!", c.ref, Null)
            /\ hist' = SweepHistory([hist EXCEPT ![c.ref].collections = @ + 1],
                                    fulfillments, collecting', c.ref)
            /\ UNCHANGED <<fulfillments, listeners, creating, now, scope>>

\* writes that set the consumed flag of the stage along with the status
StatusUpdateConsuming(f, newStatus, ts) ==
    [f EXCEPT !.status = newStatus,
              !.qrCodeUsed = IF newStatus = "in-transit" THEN TRUE ELSE @,
              !.passwordUsed = IF newStatus = "completed" THEN TRUE ELSE @,
              !.timeline = IF newStatus = "in-transit" THEN MarkStage(@, "dropped-off", ts)
                           ELSE IF newStatus = "completed" THEN MarkStage(@, "collected", ts)
                           ELSE @]

\* the writes of updateStatus
StatusUpdate(f, newStatus, ts) ==
    [f EXCEPT !.status = newStatus,
              !.timeline = IF newStatus = "in-transit" THEN MarkStage(@, "dropped-off", ts)
                           ELSE IF newStatus = "completed" THEN MarkStage(@, "collected", ts)
                           ELSE @]

\* an updateStatus that saves and notifies also when it finds no record
updateStatusAlwaysSaving(id, newStatus) ==
    LET f == Find(fulfillments, heap, id)
    IN IF f = 0
       THEN /\ SaveAndNotify(fulfillments, heap)
            /\ last' = Return("updateStatus", TRUE, "", 0, Null)
            /\ UNCHANGED <<heap, fulfillments, listeners, creating, collecting, now, hist, scope>>
       ELSE /\ heap' = [heap EXCEPT ![f] = StatusUpdate(@, newStatus, toISOString(now))]
            /\ SaveAndNotify(fulfillments, heap')
            /\ last' = Return("updateStatus", TRUE, "", 0, Null)
            /\ UNCHANGED <<fulfillments, listeners, creating, collecting, now, hist, scope>>

\* updateStatus(id, newStatus); it returns undefined on both paths
updateStatus(id, newStatus) ==
    LET f == Find(fulfillments, heap, id)
    IN IF f = 0
       THEN /\ last' = Return("updateStatus", TRUE, "", 0, Null)
            /\ Quiet
            /\ UNCHANGED <<heap, fulfillments, storage, listeners, delivered, creating, collecting, now, hist, scope>>
       ELSE /\ heap' = [heap EXCEPT ![f] = StatusUpdate(@, newStatus, toISOString(now))]
            /\ SaveAndNotify(fulfillments, heap')
            /\ last' = Return("updateStatus", TRUE, "", 0, Null)
            /\ UNCHANGED <<fulfillments, listeners, creating, collecting, now, hist, scope>>

deleteFulfillment(id) ==
    /\ fulfillments' = Filter(fulfillments, heap, id)
    /\ SaveAndNotify(fulfillments', heap)
    /\ heap' = Sweep(heap, fulfillments', collecting, 0)
    /\ hist' = SweepHistory(hist, fulfillments', collecting, 0)
    /\ last' = Return("deleteFulfillment", TRUE, "", 0, Null)
    /\ UNCHANGED <<listeners, creating, collecting, now, scope>>

\* without a store (the constructor threw) there is nothing to call
Next ==
    \/ Tick
    \/ Constructed /\ subscribe(Len(listeners) + 1)
    \/ Constructed /\ \E data \in DataInputs, r \in ScopePinRandoms : createFulfillmentStart(data, r)
    \/ Constructed /\ \E c \in BagToSet(creating), r \in ScopeSuffixRandoms : createFulfillmentResume(c, r)
    \/ Constructed /\ scope.updates /\ \E id \in IdInputs : updateStatusViaQR(id)
    \/ Constructed /\ scope.updates /\ \E id \in IdInputs, password \in ScopePasswordInputs :
                                         validateAndCollectStart(id, password)
    \/ Constructed /\ scope.updates /\ \E c \in BagToSet(collecting) : validateAndCollectResume(c)
    \/ Constructed /\ scope.updates /\ \E id \in IdInputs, newStatus \in Statuses : updateStatus(id, newStatus)
    \/ Constructed /\ \E id \in IdInputs : deleteFulfillment(id)

Spec == Init /\ [][Next]_vars

\* the operations of the store, and the page loaded again at any moment
NextOrReload == Next \/ Reload
SpecReload == Init /\ [][NextOrReload]_vars

(***************************************************************************)
(* Properties.                                                             *)
(***************************************************************************)
\* the records of the collection, by address
Listed == { fulfillments[i] : i \in 1..Len(fulfillments) }
Rank(status) == IF status = "pending" THEN 0 ELSE IF status = "in-transit" THEN 1 ELSE 2

TokenAlreadyUsed == Return("updateStatusViaQR", FALSE, "QR code has already been used", 0, Null)
SecretMismatch == Return("validateAndCollect", FALSE, "Incorrect password", 0, Null)
InvalidStateNotDroppedOff ==
    Return("validateAndCollect", FALSE, "Item has not been dropped off yet", 0, Null)

\* C1: updateStatusViaQR succeeds at most once per record: called with the id of a
\* pending record whose qrCodeUsed is false it succeeds and marks the record; no
\* record ever has two successful calls; and every call that finds a record which
\* already had its successful call returns 'QR code has already been used',
\* whatever else happened to the record in between.
C1_DropOffOncePerRecord ==
    /\ [](\A a \in Addresses : hist[a].dropOffs <= 1)
    /\ [][\A id \in IdInputs :
            LET f == Find(fulfillments, heap, id)
            IN updateStatusViaQR(id) =>
                 /\ (f # 0 /\ heap[f].status = "pending" /\ ~heap[f].qrCodeUsed)
                       => /\ last' = Return("updateStatusViaQR", TRUE, "Item receipt confirmed!", f, Null)
                          /\ heap'[f].qrCodeUsed
                          /\ heap'[f].status = "in-transit"
                          /\ hist'[f].dropOffs = 1
                 /\ (f # 0 /\ hist[f].dropOffs >= 1)
                       => /\ last' = TokenAlreadyUsed
                          /\ UNCHANGED <<heap, fulfillments, storage, hist>>]_vars

\* C1 witness: a record had its successful drop-off and a later call on it was
\* refused as already used
C1_Witness ==
    /\ last = TokenAlreadyUsed
    /\ \E a \in Listed : hist[a].dropOffs = 1

\* C2: over any sequence of validateAndCollect calls, at most one call per record
\* returns success
C2_CollectSucceedsAtMostOnce == \A a \in Addresses : hist[a].collections <= 1

\* C3: the checks and the update of validateAndCollect are one indivisible unit
\* relative to the other checkpoint calls on the same record: when the update of a
\* checkpoint call takes effect on a record, no other validateAndCollect call on
\* that record is between its checks and its update
C3_CollectIsIndivisible ==
    [][/\ \A c \in BagToSet(collecting) :
             (validateAndCollectResume(c) /\ last'.success)
                 => ~\E d \in BagToSet(collecting') : d.ref = c.ref
       /\ \A id \in IdInputs :
             (updateStatusViaQR(id) /\ last'.success)
                 => ~\E d \in BagToSet(collecting) : d.ref = Find(fulfillments, heap, id)]_vars

\* C4: every record of the collection with qrCodeUsed has status in-transit or
\* completed
C4_TokenConsumedImpliesDroppedOff ==
    \A a \in Listed : heap[a].qrCodeUsed => heap[a].status \in { "in-transit", "completed" }

\* C5: every record of the collection with passwordUsed has status completed
C5_SecretConsumedImpliesCompleted ==
    \A a \in Listed : heap[a].passwordUsed => heap[a].status = "completed"

\* C6: in every step, no record's status moves to an earlier stage, and a record
\* leaves the collection only in a deleteFulfillment step
C6_StatusMonotone ==
    [][\A a \in Listed :
          /\ a \in Listed' => Rank(heap'[a].status) >= Rank(heap[a].status)
          /\ a \notin Listed' => \E id \in IdInputs : deleteFulfillment(id)]_vars

\* C7: the checkpoint operations never skip a stage: a successful updateStatusViaQR
\* writes status in-transit over pending, and a successful validateAndCollect
\* writes status completed over in-transit, the status the record has immediately
\* before the write
C7_CheckpointsNeverSkip ==
    [][/\ \A id \in IdInputs :
             LET f == Find(fulfillments, heap, id)
             IN (updateStatusViaQR(id) /\ last'.success)
                   => heap[f].status = "pending" /\ heap'[f].status = "in-transit"
       /\ \A c \in BagToSet(collecting) :
             (validateAndCollectResume(c) /\ last'.success)
                   => heap[c.ref].status = "in-transit"]_vars

\* C8: each consumed flag goes from false to true once: once true it is not set
\* back to false, and no later step writes it again (the history counts the writes)
C8_FlagsWrittenOnce ==
    [][\A a \in Addresses :
          a \in Referenced(fulfillments', collecting') =>
             /\ heap[a].qrCodeUsed
                   => heap'[a].qrCodeUsed /\ hist'[a].dropOffs = hist[a].dropOffs
             /\ heap[a].passwordUsed
                   => heap'[a].passwordUsed /\ hist'[a].collections = hist[a].collections]_vars

\* C9: a validateAndCollect call that passed the checks (record found, passwordUsed
\* false, status in-transit) with a password other than the record's secret returns
\* 'Incorrect password' and changes neither the record, the collection, the stored
\* text nor what the listeners were given; nor does the call change anything
\* before its digest arrives
C9_WrongSecretMutatesNothing ==
    [][/\ \A c \in BagToSet(collecting) :
             (validateAndCollectResume(c) /\ c.password # hist[c.ref].secret)
                 => /\ last' = SecretMismatch
                    /\ UNCHANGED <<fulfillments, storage, delivered>>
                    /\ Collection(fulfillments', heap') = Collection(fulfillments, heap)
                    /\ c.ref \in Referenced(fulfillments', collecting') => heap'[c.ref] = heap[c.ref]
       /\ \A id \in IdInputs, password \in ScopePasswordInputs :
             LET f == Find(fulfillments, heap, id)
             IN (validateAndCollectStart(id, password) /\ f # 0
                   /\ heap[f].status = "in-transit" /\ ~heap[f].passwordUsed)
                 => /\ UNCHANGED <<heap, fulfillments, storage, delivered, last>>
                    /\ BagIn([id |-> id, password |-> password, ref |-> f], collecting')]_vars

\* C9 witness: a call with a wrong password was answered 'Incorrect password' while
\* its record is in the collection, in transit and unconsumed
C9_Witness ==
    /\ last = SecretMismatch
    /\ \E a \in Listed : heap[a].status = "in-transit" /\ ~heap[a].passwordUsed

\* C10: validateAndCollect on a record with status pending (and passwordUsed false)
\* returns 'Item has not been dropped off yet' for every supplied password, the
\* record's secret included, and changes nothing
C10_CollectBeforeDropOff ==
    [][\A id \in IdInputs, password \in ScopePasswordInputs :
          LET f == Find(fulfillments, heap, id)
          IN (validateAndCollectStart(id, password) /\ f # 0
                /\ heap[f].status = "pending" /\ ~heap[f].passwordUsed)
              => /\ last' = InvalidStateNotDroppedOff
                 /\ UNCHANGED <<heap, fulfillments, storage, delivered, collecting, hist>>]_vars

\* C10 witness: the call was refused on a record still pending, never dropped off
\* and with its secret unconsumed
C10_Witness ==
    /\ last = InvalidStateNotDroppedOff
    /\ \E a \in Listed : /\ heap[a].status = "pending" /\ ~heap[a].passwordUsed
                         /\ ~heap[a].qrCodeUsed /\ hist[a].dropOffs = 0

DropOffNotFound == Return("updateStatusViaQR", FALSE, "Fulfillment not found", 0, Null)
DropOffInvalidState ==
    Return("updateStatusViaQR", FALSE, "Fulfillment is not in pending status", 0, Null)
CollectNotFound == Return("validateAndCollect", FALSE, "Fulfillment not found", 0, Null)
SecretAlreadyUsed == Return("validateAndCollect", FALSE, "Password has already been used", 0, Null)

\* C11: updateStatusViaQR reports the first failing check in the order exists,
\* qrCodeUsed false, status pending: an id that finds nothing gives 'Fulfillment not
\* found'; a record with qrCodeUsed gives 'QR code has already been used' whatever
\* its status; a record with qrCodeUsed false and a status other than pending gives
\* 'Fulfillment is not in pending status'; a failing call changes nothing
C11_DropOffCheckOrder ==
    [][\A id \in IdInputs :
          LET f == Find(fulfillments, heap, id)
          IN updateStatusViaQR(id) =>
               /\ f = 0 => last' = DropOffNotFound
               /\ (f # 0 /\ heap[f].qrCodeUsed) => last' = TokenAlreadyUsed
               /\ (f # 0 /\ ~heap[f].qrCodeUsed /\ heap[f].status # "pending")
                     => last' = DropOffInvalidState
               /\ ~last'.success => UNCHANGED <<heap, fulfillments, storage, delivered>>]_vars

\* C11 witness: a call was answered 'Fulfillment is not in pending status' on a
\* record whose qrCodeUsed is false and whose status updateStatus moved on
C11_Witness ==
    /\ last = DropOffInvalidState
    /\ \E a \in Listed : ~heap[a].qrCodeUsed /\ heap[a].status = "completed"

\* C12: validateAndCollect reports the first failing check in the order exists,
\* passwordUsed false, status in-transit, digest equal: an id that finds nothing
\* gives 'Fulfillment not found'; passwordUsed gives 'Password has already been
\* used' whatever the status and the password; passwordUsed false with a status
\* other than in-transit gives 'Item has not been dropped off yet' whatever the
\* password; a call that passes the three checks waits for its digest, and only
\* such a call is answered 'Incorrect password', when its password is not the secret
C12_CollectCheckOrder ==
    [][/\ \A id \in IdInputs, password \in ScopePasswordInputs :
             LET f == Find(fulfillments, heap, id)
             IN validateAndCollectStart(id, password) =>
                  /\ f = 0 => last' = CollectNotFound
                  /\ (f # 0 /\ heap[f].passwordUsed) => last' = SecretAlreadyUsed
                  /\ (f # 0 /\ ~heap[f].passwordUsed /\ heap[f].status # "in-transit")
                        => last' = InvalidStateNotDroppedOff
                  /\ (f # 0 /\ ~heap[f].passwordUsed /\ heap[f].status = "in-transit")
                        => /\ BagIn([id |-> id, password |-> password, ref |-> f], collecting')
                           /\ last' = last
                  /\ last' # SecretMismatch \/ last = SecretMismatch
       /\ \A c \in BagToSet(collecting) :
             validateAndCollectResume(c) =>
                  (last' = SecretMismatch <=> c.password # hist[c.ref].secret)]_vars

\* C12 witness: a call was answered 'Password has already been used' on a record
\* whose status is not completed
C12_Witness ==
    /\ last = SecretAlreadyUsed
    /\ \E a \in Listed : heap[a].passwordUsed /\ heap[a].status = "pending"

\* C13: the record createFulfillment returns has status pending, qrCodeUsed and
\* passwordUsed false, and a timeline of exactly the three stages created,
\* dropped-off, collected in this order, the first completed with a timestamp, the
\* other two not completed and with a null timestamp
C13_CreatedRecordShape ==
    [][\A c \in BagToSet(creating), r \in ScopeSuffixRandoms :
          createFulfillmentResume(c, r) =>
             LET f == heap'[last'.ref]
             IN /\ last'.op = "createFulfillment" /\ last'.ref = fulfillments'[1]
                /\ f.status = "pending" /\ ~f.qrCodeUsed /\ ~f.passwordUsed
                /\ Len(f.timeline) = 3
                /\ f.timeline[1].stage = "created"
                /\ f.timeline[2].stage = "dropped-off"
                /\ f.timeline[3].stage = "collected"
                /\ f.timeline[1].completed /\ f.timeline[1].timestamp # Null
                /\ \A i \in 2..3 : ~f.timeline[i].completed /\ f.timeline[i].timestamp = Null]_vars

\* C13 witness: createFulfillment has just returned a record, pending and with its
\* created stage stamped
C13_Witness ==
    /\ last.op = "createFulfillment"
    /\ last.ref \in Listed
    /\ heap[last.ref].status = "pending"
    /\ heap[last.ref].timeline[1].timestamp = toISOString(now)

\* C14: the digest of the password createFulfillment returns is the passwordHash of
\* the record it returns; this stays so in every later state of the record; and a
\* validateAndCollect call that passed its checks with that password passes the
\* digest comparison
C14_ReturnedSecretMatchesHash ==
    /\ [](\A a \in Referenced(fulfillments, collecting) :
             hashPassword(hist[a].secret) = heap[a].passwordHash)
    /\ [][/\ \A c \in BagToSet(creating), r \in ScopeSuffixRandoms :
                createFulfillmentResume(c, r) =>
                   /\ hashPassword(last'.password) = heap'[last'.ref].passwordHash
                   /\ hist'[last'.ref].secret = last'.password
          /\ \A c \in BagToSet(collecting) :
                (validateAndCollectResume(c) /\ c.password = hist[c.ref].secret)
                   => last' = Return("validateAndCollect", TRUE, "Item collected successfully!",
                                     c.ref, Null)]_vars

\* C14 witness: a call with the returned password was answered with success on a
\* record that went through updateStatusViaQR
C14_Witness ==
    /\ last.op = "validateAndCollect" /\ last.success
    /\ last.ref \in Listed
    /\ hist[last.ref].dropOffs = 1 /\ hist[last.ref].collections = 1

\* the passwords handed out, and a password as the characters it is made of
Secrets == { hist[a].secret : a \in Addresses } \ { Null }
SecretChars(s) == [i \in 1..Len(s) |-> Upper36[s[i] - 47]] \o <<>>

\* the <<key, value>> members of a stringified record, those of its stages included
Leaves(text) ==
    { text[i] : i \in { j \in 1..Len(text) : text[j][1] # "timeline" } }
      \cup UNION { UNION { { text[i][2][k][m] : m \in 1..Len(text[i][2][k]) } :
                             k \in 1..Len(text[i][2]) } :
                     i \in { j \in 1..Len(text) : text[j][1] = "timeline" } }
PublicStrings ==
    UNION { { d.itemName, d.personA, d.personB, d.personC } : d \in DataInputs }
      \cup Statuses \cup { "created", "dropped-off", "collected",
                           "Fulfillment Created", "Item Dropped Off", "Item Collected" }
\* the member does not hold the password s
Conceals(member, s) ==
    IF member[1] \in { "id", "passwordHash", "description" } THEN member[2] # SecretChars(s)
    ELSE IF member[1] \in { "createdAt", "timestamp" } THEN member[2] # s
    ELSE IF member[1] \in { "qrCodeUsed", "passwordUsed", "completed" } THEN member[2] \in BOOLEAN
    ELSE member[2] \in PublicStrings

\* C15: the plaintext password appears only in the value createFulfillment
\* returns: no field of a record in memory and no member of the stored text holds
\* a password that was handed out, and no other operation returns one
C15_PlaintextOnlyReturnedByCreate ==
    /\ \A s \in Secrets :
          /\ \A a \in Referenced(fulfillments, collecting) :
                \A member \in Leaves(StringifyRecord(heap[a])) : Conceals(member, s)
          /\ storage # NoItem =>
                \A i \in 1..Len(storage[1]) :
                   \A member \in Leaves(storage[1][i]) : Conceals(member, s)
    /\ last.op # "createFulfillment" => last.password = Null

\* C15 witness: a password was handed out and its record is in memory and in the
\* stored text, after an operation other than createFulfillment returned
C15_Witness ==
    /\ last.op = "validateAndCollect"
    /\ storage # NoItem /\ Len(storage[1]) = 1
    /\ \E a \in Listed : hist[a].secret \in Secrets /\ Len(heap[a].passwordHash) = 64

\* the stage of a record's timeline with the given name
Stage(f, name) == f.timeline[CHOOSE i \in 1..Len(f.timeline) : f.timeline[i].stage = name]

\* C16: in every state, for every record of the collection, the dropped-off stage
\* is completed exactly if qrCodeUsed is true, and the collected stage is completed
\* exactly if passwordUsed is true
C16_StagesFollowFlags ==
    \A a \in Listed :
       /\ Stage(heap[a], "dropped-off").completed <=> heap[a].qrCodeUsed
       /\ Stage(heap[a], "collected").completed <=> heap[a].passwordUsed

\* C17: a stage has a timestamp exactly if it is completed, and a timestamp, once
\* set, is not changed by any later step
C17_TimestampsSetOnce ==
    /\ [](\A a \in Listed : \A i \in 1..Len(heap[a].timeline) :
             heap[a].timeline[i].timestamp # Null <=> heap[a].timeline[i].completed)
    /\ [][\A a \in Listed \cap Listed' : \A i \in 1..Len(heap[a].timeline) :
             heap[a].timeline[i].timestamp # Null
                => heap'[a].timeline[i].timestamp = heap[a].timeline[i].timestamp]_vars

\* C18: updateStatus(id, newStatus) on an id that finds a record sets the status of
\* that record to newStatus, completes the dropped-off stage for 'in-transit' and
\* the collected stage for 'completed', and leaves qrCodeUsed, passwordUsed and
\* passwordHash of the record, every other record, and the array unchanged
C18_UpdateStatusFrame ==
    [][\A id \in IdInputs, newStatus \in Statuses :
          LET f == Find(fulfillments, heap, id)
          IN (updateStatus(id, newStatus) /\ f # 0) =>
               /\ heap'[f].status = newStatus
               /\ newStatus = "in-transit" => Stage(heap'[f], "dropped-off").completed
               /\ newStatus = "completed" => Stage(heap'[f], "collected").completed
               /\ heap'[f].qrCodeUsed = heap[f].qrCodeUsed
               /\ heap'[f].passwordUsed = heap[f].passwordUsed
               /\ heap'[f].passwordHash = heap[f].passwordHash
               /\ \A b \in Addresses \ {f} : heap'[b] = heap[b]
               /\ fulfillments' = fulfillments]_vars

\* C18 witness: updateStatus has completed a record whose secret was never used,
\* next to another record
C18_Witness ==
    /\ last.op = "updateStatus"
    /\ Len(fulfillments) = 2
    /\ \E a \in Listed : /\ heap[a].status = "completed" /\ ~heap[a].passwordUsed
                         /\ ~heap[a].qrCodeUsed /\ Stage(heap[a], "collected").completed

\* C19: deleteFulfillment(id) removes every record with that id, whatever its
\* status and flags: afterwards getFulfillment(id) finds nothing and the checks of
\* updateStatusViaQR and validateAndCollect on that id answer 'Fulfillment not
\* found'; the records with another id are unchanged and keep their order; and
\* every later updateStatusViaQR or validateAndCollect with an id that no record of
\* the collection has returns 'Fulfillment not found'
C19_DeleteFrame ==
    [][/\ \A id \in IdInputs :
             (last'.op = "deleteFulfillment" /\ deleteFulfillment(id)) =>
                LET Other(a) == heap[a].id # id
                    found == Find(fulfillments', heap', id)
                IN /\ found = 0
                   /\ updateStatusViaQRChecks(found, heap') = "Fulfillment not found"
                   /\ validateAndCollectChecks(found, heap') = "Fulfillment not found"
                   /\ fulfillments' = SelectSeq(fulfillments, Other)
                   /\ \A a \in Listed' : heap'[a] = heap[a]
       /\ \A id \in IdInputs :
             (/\ last'.op = "updateStatusViaQR"
              /\ \A a \in Listed : heap[a].id # id
              /\ updateStatusViaQR(id)) => last' = DropOffNotFound
       /\ \A id \in IdInputs, password \in ScopePasswordInputs :
             (/\ last'.op = "validateAndCollect"
              /\ \A a \in Listed : heap[a].id # id
              /\ validateAndCollectStart(id, password)) => last' = CollectNotFound]_vars

\* C19 witness: of three records with three ids the middle one has been deleted,
\* and the other two are in the collection in the order they had
C19_Witness ==
    /\ last.op = "deleteFulfillment"
    /\ Len(heap) = 3
    /\ fulfillments = <<3, 1>>
    /\ heap[2] = Garbage
    /\ heap[3].id # heap[1].id

\* C20: the stored text is written before the listeners are notified: whenever a
\* listener has been invoked, by whichever mutation, the localStorage item held at
\* that moment the very collection the listener was given
C20_PersistBeforeNotify ==
    \A l \in 1..Len(delivered) :
       delivered[l] # <<>> =>
          LET d == delivered[l][1]
          IN /\ d.stored # NoItem
             /\ JSONparse(d.stored[1]) = d.given

\* C20 witness: the listener was invoked by a successful updateStatusViaQR with
\* the collection of that moment
C20_Witness ==
    /\ last.op = "updateStatusViaQR" /\ last.success
    /\ Len(listeners) >= 1
    /\ invoked = Len(listeners)
    /\ delivered[1] # <<>>
    /\ delivered[1][1].given = Collection(fulfillments, heap)
    /\ heap[last.ref].qrCodeUsed

\* the latest step invoked every subscribed listener, each with the collection as
\* it stands
Notified ==
    /\ invoked = Len(listeners)
    /\ \A l \in 1..Len(listeners) :
          delivered[l] # <<>> /\ delivered[l][1].given = Collection(fulfillments, heap)

\* C21: every mutation (createFulfillment, a successful updateStatusViaQR, a
\* successful validateAndCollect, updateStatus on an id that finds a record,
\* deleteFulfillment) invokes every subscribed listener with the collection as it
\* stands after the mutation, and no step changes the collection without doing so
C21_NotifyAfterEveryMutation ==
    [][/\ \A c \in BagToSet(creating), r \in ScopeSuffixRandoms :
             (last'.op = "createFulfillment" /\ createFulfillmentResume(c, r)) => Notified'
       /\ \A id \in IdInputs :
             /\ (last'.op = "updateStatusViaQR" /\ last'.success /\ updateStatusViaQR(id))
                   => Notified'
             /\ (last'.op = "deleteFulfillment" /\ deleteFulfillment(id)) => Notified'
             /\ \A newStatus \in Statuses :
                   (last'.op = "updateStatus" /\ Find(fulfillments, heap, id) # 0
                      /\ updateStatus(id, newStatus)) => Notified'
       /\ \A c \in BagToSet(collecting) :
             (last'.op = "validateAndCollect" /\ last'.success /\ validateAndCollectResume(c))
                   => Notified'
       /\ Collection(fulfillments', heap') # Collection(fulfillments, heap) => Notified']_vars

\* C21 witness: two listeners are subscribed and both were last invoked, by an
\* updateStatus, with the collection as it stands, a completed record
C21_Witness ==
    /\ Len(listeners) = 2
    /\ last.op = "updateStatus"
    /\ Len(fulfillments) = 1 /\ heap[fulfillments[1]].status = "completed"
    /\ Notified
    /\ delivered[1] = delivered[2]

\* C22: after every completed operation the stored text is the whole collection:
\* loadFromStorage on it yields records equal, field for field and in the same
\* order, to the collection in memory; and a page loaded again at that point, with
\* a store constructed from the stored text, holds that same collection
C22_StorageRoundTrip ==
    /\ [](Constructed =>
             /\ ~Throws(storage)
             /\ loadFromStorage(storage) = Collection(fulfillments, heap))
    /\ [][(Constructed /\ last'.op = "constructor" /\ Reload) =>
             /\ last' = Return("constructor", TRUE, "", 0, Null)
             /\ Collection(fulfillments', heap') = Collection(fulfillments, heap)]_vars

\* C22 witness: a store was constructed from the stored text of two records, one
\* of them in transit
C22_Witness ==
    /\ last = Return("constructor", TRUE, "", 0, Null)
    /\ storage # NoItem
    /\ Len(fulfillments) = 2
    /\ heap[fulfillments[2]].status = "in-transit"
    /\ heap[fulfillments[1]].status = "pending"

\* t is the same instant as u or a later one, for two values of toISOString
RECURSIVE NotBefore(_, _)
NotBefore(t, u) ==
    IF t = <<>> \/ u = <<>> THEN TRUE
    ELSE IF Head(t) # Head(u) THEN Head(t) > Head(u)
    ELSE NotBefore(Tail(t), Tail(u))

\* the collection is ordered by createdAt, the latest first
OrderedByCreatedAt ==
    \A i \in 1..Len(fulfillments), j \in 1..Len(fulfillments) :
        i < j => NotBefore(heap[fulfillments[i]].createdAt, heap[fulfillments[j]].createdAt)

\* C23 as stated: createFulfillment puts the new record at the head of the array
\* and keeps the order of the others, and in every state the collection is ordered
\* most recent first by createdAt, also when createFulfillment calls overlap and
\* their digests arrive in any order, and after deleteFulfillment
C23_MostRecentFirst ==
    /\ []OrderedByCreatedAt
    /\ [][\A c \in BagToSet(creating), r \in ScopeSuffixRandoms :
             createFulfillmentResume(c, r) =>
                /\ Head(fulfillments') = last'.ref
                /\ Tail(fulfillments') = fulfillments]_vars

\* C23, amended: createFulfillment puts the new record at the head of the array and
\* keeps the order of the others, so in every state the collection is in the
\* reverse of the order in which the records were inserted (objects are numbered
\* in that order), also when createFulfillment calls overlap and their digests
\* arrive in any order, and after deleteFulfillment; and a collection ordered by
\* createdAt stays so in every step, except a creation whose reading of the clock
\* for createdAt is earlier than the createdAt of the record at the head
C23_MostRecentlyInsertedFirst ==
    /\ [](\A i \in 1..Len(fulfillments), j \in 1..Len(fulfillments) :
             i < j => fulfillments[i] > fulfillments[j])
    /\ [][\A c \in BagToSet(creating), r \in ScopeSuffixRandoms :
             createFulfillmentResume(c, r) =>
                /\ Head(fulfillments') = last'.ref
                /\ Tail(fulfillments') = fulfillments]_vars
    /\ [][(/\ OrderedByCreatedAt
           /\ (Len(fulfillments') > Len(fulfillments) /\ fulfillments # <<>>) =>
                 NotBefore(heap'[Head(fulfillments')].createdAt, heap[Head(fulfillments)].createdAt))
             => OrderedByCreatedAt']_vars

\* C23 witness: three records were inserted and the middle one deleted; the clock
\* was set back in between, so that the record inserted last, at the head, has the
\* earlier createdAt
C23_Witness ==
    /\ Len(heap) = 3
    /\ fulfillments = <<3, 1>>
    /\ heap[3].createdAt = toISOString(0)
    /\ heap[1].createdAt = toISOString(MaxTime)

\* C24: every id is fresh: no two records of the collection have the same id
C24_IdsAreFresh ==
    \A i \in 1..Len(fulfillments), j \in 1..Len(fulfillments) :
        i # j => heap[fulfillments[i]].id # heap[fulfillments[j]].id

\* C25: constructing the store over malformed stored data does not fail: the
\* constructor returns normally and the store starts with an empty collection
C25_MalformedStorageStartsEmpty ==
    (last.op = "constructor" /\ Throws(storage)) =>
        /\ last.success
        /\ fulfillments = <<>>

\* the fields of a record that are set when it is created
Identity(f) ==
    [id |-> f.id, itemName |-> f.itemName, personA |-> f.personA, personB |-> f.personB,
     personC |-> f.personC, createdAt |-> f.createdAt, passwordHash |-> f.passwordHash]

\* C26: id, itemName, personA, personB, personC, createdAt and passwordHash of a
\* record are fixed at creation: no step of any operation changes them in a record
\* that is in the collection before and after the step
C26_IdentityIsImmutable ==
    [][\A a \in Listed \cap Listed' : Identity(heap'[a]) = Identity(heap[a])]_vars

\* C26 witness: a record went through drop-off and collection and then through
\* updateStatus, while the clock moved on from the instant of its creation
C26_Witness ==
    /\ last.op = "updateStatus"
    /\ now > 0
    /\ \E a \in Listed :
          /\ hist[a].dropOffs = 1
          /\ hist[a].collections = 1
          /\ heap[a].status = "pending"
          /\ heap[a].createdAt = toISOString(0)

\* the array `list` of records holds a completed record with the id `id` whose
\* passwordUsed is true
HoldsCollected(list, id) ==
    \E i \in 1..Len(list) :
        /\ list[i].id = id
        /\ list[i].status = "completed"
        /\ list[i].passwordUsed

\* C27: whenever validateAndCollect returns success for an id, the record with
\* that id is at that moment in the collection and in the stored collection, with
\* status completed and passwordUsed true, also when deleteFulfillment or
\* updateStatus ran for the id while the digest was pending
C27_SuccessfulCollectIsRecorded ==
    [][\A c \in BagToSet(collecting) :
          (/\ last'.op = "validateAndCollect"
           /\ last'.success
           /\ validateAndCollectResume(c)) =>
                /\ HoldsCollected(Collection(fulfillments', heap'), c.id)
                /\ HoldsCollected(loadFromStorage(storage'), c.id)]_vars

\* the step leaves the array, its records and the stored text as they were and
\* runs no listener
NothingHappened ==
    /\ fulfillments' = fulfillments
    /\ Collection(fulfillments', heap') = Collection(fulfillments, heap)
    /\ storage' = storage
    /\ delivered' = delivered
    /\ written' = 0
    /\ invoked' = 0

\* the messages of the failures of updateStatusViaQR and of validateAndCollect
DropOffFailures ==
    { "Fulfillment not found", "QR code has already been used",
      "Fulfillment is not in pending status" }
CollectFailures ==
    { "Fulfillment not found", "Password has already been used",
      "Item has not been dropped off yet", "Incorrect password" }

\* C28: every failing updateStatusViaQR, every failing validateAndCollect (at one
\* of its three checks or at the comparison of the digests) and every updateStatus
\* with an id that finds nothing leaves the collection and the stored collection
\* unchanged and runs no listener; the two checkpoint operations return a result
\* with success false and one of the failure messages, and updateStatus returns
\* normally
C28_FailuresChangeNothing ==
    [][/\ \A id \in IdInputs :
             (/\ last'.op = "updateStatusViaQR"
              /\ updateStatusViaQRChecks(Find(fulfillments, heap, id), heap) # ""
              /\ updateStatusViaQR(id)) =>
                  /\ NothingHappened
                  /\ ~last'.success
                  /\ last'.message \in DropOffFailures
       /\ \A id \in IdInputs, password \in ScopePasswordInputs :
             (/\ last'.op = "validateAndCollect"
              /\ validateAndCollectChecks(Find(fulfillments, heap, id), heap) # ""
              /\ validateAndCollectStart(id, password)) =>
                  /\ NothingHappened
                  /\ ~last'.success
                  /\ last'.message \in CollectFailures
       /\ \A c \in BagToSet(collecting) :
             (/\ last'.op = "validateAndCollect"
              /\ ~PasswordMatches(c.password, heap[c.ref])
              /\ validateAndCollectResume(c)) =>
                  /\ NothingHappened
                  /\ ~last'.success
                  /\ last'.message \in CollectFailures
       /\ \A id \in IdInputs, newStatus \in Statuses :
             (/\ last'.op = "updateStatus"
              /\ Find(fulfillments, heap, id) = 0
              /\ updateStatus(id, newStatus)) =>
                  NothingHappened]_vars

\* C28 witness: validateAndCollect was called with an id that finds nothing while
\* the collection holds a record in transit that was saved and shown to the listeners
C28_Witness ==
    /\ last = CollectNotFound
    /\ storage # NoItem
    /\ \E a \in Listed : heap[a].status = "in-transit" /\ heap[a].qrCodeUsed
    /\ Len(listeners) >= 1
    /\ written = 0 /\ invoked = 0
    /\ \A l \in 1..Len(listeners) :
          /\ delivered[l] # <<>>
          /\ delivered[l][1].given = Collection(fulfillments, heap)

====
